---- MODULE Spec2Model ----
(***************************************************************************)
(* Fixed-window rate limiter of app.py: the RateLimit window tracker, the  *)
(* ratelimit admission wrapper and the inject_x_rate_headers response      *)
(* hook, running against a shared Redis counter store.                     *)
(***************************************************************************)
EXTENDS Integers, Sequences, FiniteSets, TLC

VARIABLES wrap, now, store, req, admits

vars == <<wrap, now, store, req, admits>>

(* ------------------------------ bounds --------------------------------- *)

\* number of requests handled concurrently
MaxRequests == 3

\* last second of wall-clock time explored
MaxTime == 40

\* seconds between two observations of the clock
TickStep == 10

Req == 1..MaxRequests

(* --------------------------- program values ---------------------------- *)

\* class attribute RateLimit.expiration_window
expiration_window == 10

\* arguments handed to ratelimit(): the routes' 100/60 and 10/20, the
\* limit=2 per=60 scenario, a limit of 1, header exposure switched off, and
\* non-positive values, which ratelimit() accepts as well
Configs == {[limit |-> 100, per |-> 60, send_x_headers |-> TRUE],
            [limit |-> 10, per |-> 20, send_x_headers |-> TRUE],
            [limit |-> 2, per |-> 60, send_x_headers |-> TRUE],
            [limit |-> 2, per |-> 60, send_x_headers |-> FALSE],
            [limit |-> 1, per |-> 20, send_x_headers |-> TRUE],
            [limit |-> 0, per |-> 60, send_x_headers |-> TRUE],
            [limit |-> 2, per |-> 0, send_x_headers |-> TRUE],
            [limit |-> 2, per |-> -20, send_x_headers |-> TRUE]}

\* (key_func(), scope_func()) values of the requests, as character sequences:
\* request.endpoint and request.remote_addr, both overridable per operation
Scopes == {[endpoint |-> <<"p", "o", "i">>, caller |-> <<"1", ".", "2">>],
           [endpoint |-> <<"p", "o", "i">>, caller |-> <<"1", ".", "3">>]}

\* what the protected operation f returns, and the errors it raises
Results == {"rows"}
Errors == {"KeyError"}

None == "None"

(* ------------------------- integer conversions ------------------------- *)

Digits == <<"0", "1", "2", "3", "4", "5", "6", "7", "8", "9">>

RECURSIVE NatStr(_)
NatStr(n) ==
    IF n < 10 THEN <<Digits[n + 1]>>
    ELSE NatStr(n \div 10) \o <<Digits[(n % 10) + 1]>>

\* Python str() of an int
str(n) == IF n < 0 THEN <<"-">> \o NatStr(-n) ELSE NatStr(n)

\* Python floor division a // b for b # 0
FloorDiv(a, b) == IF b > 0 THEN a \div b ELSE (-a) \div (-b)

Min(a, b) == IF a <= b THEN a ELSE b

(* ------------------------------ RateLimit ------------------------------ *)

\* self.reset = (int(time.time()) // per) * per + per
ResetNoAdd(t, per) == FloorDiv(t, per) * per

Reset(t, per) == FloorDiv(t, per) * per + per

\* key = 'rate-limit/%s/%s/' % (key_func(), scope_func())
KeyPrefix(endpoint, caller) ==
    <<"rate-limit", "/">> \o endpoint \o <<"/">> \o caller \o <<"/">>

KeyNoWindow(key_prefix, reset) == key_prefix

\* self.key = key_prefix + str(self.reset)
Key(key_prefix, reset) == key_prefix \o str(reset)

ExpiryAtReset(reset) == reset

\* the timestamp given to p.expireat
Expiry(reset) == reset + expiration_window

CurrentUncapped(count, limit) == count

\* self.current = min(p.execute()[0], limit)
Current(count, limit) == Min(count, limit)

remainingOffByOne(rl) == rl.limit - rl.current - 1

\* remaining = property(lambda x: x.limit - x.current)
remaining(rl) == rl.limit - rl.current

over_limitStrict(rl) == rl.current > rl.limit

\* over_limit = property(lambda x: x.current >= x.limit)
over_limit(rl) == rl.current >= rl.limit

(* ---------------------------- counter store ---------------------------- *)

NoExpiry == -1

\* INCR: creates the key at zero when absent, returns the new value
IncrTwice(s, k) ==
    IF k \in DOMAIN s
    THEN [s EXCEPT ![k].count = @ + 2]
    ELSE [j \in DOMAIN s \cup {k} |->
            IF j = k THEN [count |-> 2, expireat |-> NoExpiry] ELSE s[j]]

Incr(s, k) ==
    IF k \in DOMAIN s
    THEN [s EXCEPT ![k].count = @ + 1]
    ELSE [j \in DOMAIN s \cup {k} |->
            IF j = k THEN [count |-> 1, expireat |-> NoExpiry] ELSE s[j]]

\* EXPIREAT: a timestamp that is not in the future deletes the key
ExpireAt(s, k, ts, t) ==
    IF ts <= t
    THEN [j \in DOMAIN s \ {k} |-> s[j]]
    ELSE [s EXCEPT ![k].expireat = ts]

\* the store drops every key whose expiry time has come
Purge(s, t) ==
    LET live == {k \in DOMAIN s : s[k].expireat = NoExpiry \/ t < s[k].expireat}
    IN  [k \in live |-> s[k]]

(* ------------------------------- requests ------------------------------ *)

NoRateLimit == [limit |-> 0, per |-> 0, send_x_headers |-> FALSE,
                reset |-> 0, current |-> 0]

NoResponse == [status |-> 0, body |-> None, headers |-> <<>>]

NoOutcome == [kind |-> "none", value |-> None]

\* a request that has not arrived; g is the request's call context, holding
\* at most the attached RateLimit
IdleReq == [pc |-> "idle", scope |-> [endpoint |-> <<>>, caller |-> <<>>],
            reset |-> 0, key |-> <<>>, count |-> 0,
            g |-> <<>>, f_calls |-> 0, f_out |-> NoOutcome, exc |-> None,
            resp |-> NoResponse, decorated |-> 0]

\* on_over_limit: (jsonify({'data': ..., 'error': '429'}), 429)
on_over_limit(rl) ==
    [status |-> 429,
     body |-> "{\"data\": \"You hit the rate limit\", \"error\": \"429\"}",
     headers |-> <<>>]

\* the over_limit argument of ratelimit(), left at its default by every route
over_limit_handler == "on_over_limit"

\* Flask turns an exception that leaves the view into a 500 response
ErrorResponse == [status |-> 500, body |-> "Internal Server Error",
                  headers |-> <<>>]

\* the response made of what the view returned
OkResponse(v) == [status |-> 200, body |-> v, headers |-> <<>>]

FOutcomes == [kind : {"return"}, value : Results]
                \cup [kind : {"raise"}, value : Errors]

\* getattr(g, '_view_rate_limit', None): the attached result, absent when
\* nothing was attached
get_view_rate_limit(g) ==
    IF g = <<>> THEN [present |-> FALSE, rl |-> NoRateLimit]
    ELSE [present |-> TRUE, rl |-> g[1]]

inject_x_rate_headersAlways(g, response) ==
    LET got == get_view_rate_limit(g)
        limit == got.rl
    IN
    IF got.present
    THEN [response EXCEPT !.headers = @ \o
            << <<"X-RateLimit-Remaining", str(remaining(limit))>>,
               <<"X-RateLimit-Limit", str(limit.limit)>>,
               <<"X-RateLimit-Reset", str(limit.reset)>> >>]
    ELSE response

\* inject_x_rate_headers(response), g being the request's call context
inject_x_rate_headers(g, response) ==
    LET got == get_view_rate_limit(g)
        limit == got.rl
    IN
    IF got.present /\ limit.send_x_headers
    THEN [response EXCEPT !.headers = @ \o
            << <<"X-RateLimit-Remaining", str(remaining(limit))>>,
               <<"X-RateLimit-Limit", str(limit.limit)>>,
               <<"X-RateLimit-Reset", str(limit.reset)>> >>]
    ELSE response

no_after_request_funcs == <<>>

\* @app.after_request: the hooks registered on the application
after_request_funcs == <<"inject_x_rate_headers">>

RECURSIVE RunHooks(_, _, _)
RunHooks(hooks, g, response) ==
    IF hooks = <<>> THEN response
    ELSE RunHooks(Tail(hooks), g, inject_x_rate_headers(g, response))

\* Flask's process_response: every registered hook runs on the response,
\* whether it came from the view, from on_over_limit or from an exception;
\* rq is the request's record once the view function is over
process_response(rq) ==
    [rq EXCEPT !.pc = "done",
               !.resp = RunHooks(after_request_funcs, rq.g, rq.resp),
               !.decorated = @ + Len(after_request_funcs)]

Init ==
    /\ wrap = [state |-> "unwrapped", limit |-> 0, per |-> 0,
               send_x_headers |-> FALSE]
    /\ now = 0
    /\ store = <<>>
    /\ req = [r \in Req |-> IdleReq]
    /\ admits = <<>>

\* ratelimit(limit, per, send_x_headers)(f): the decorator is applied to the
\* operation; no argument is inspected
ratelimit(c) ==
    /\ wrap.state = "unwrapped"
    /\ wrap' = [state |-> "wrapped", limit |-> c.limit, per |-> c.per,
                send_x_headers |-> c.send_x_headers]
    /\ UNCHANGED <<now, store, req>>

\* a request enters rate_limited and RateLimit.__init__: the key prefix is
\* built, the clock is read, reset and key are computed; per = 0 raises
\* ZeroDivisionError, which leaves the wrapper and ends the request
Arrive(r, sc) ==
    /\ wrap.state = "wrapped"
    /\ req[r].pc = "idle"
    /\ IF r = 1 THEN TRUE ELSE req[r - 1].pc # "idle"
    /\ LET kp == KeyPrefix(sc.endpoint, sc.caller) IN
       IF wrap.per = 0
       THEN req' = [req EXCEPT ![r] = process_response(
                      [@ EXCEPT !.scope = sc, !.exc = "ZeroDivisionError",
                                !.resp = ErrorResponse])]
       ELSE LET rs == Reset(now, wrap.per) IN
            req' = [req EXCEPT ![r].pc = "pipeline", ![r].scope = sc,
                               ![r].reset = rs, ![r].key = Key(kp, rs)]
    /\ UNCHANGED <<wrap, now, store>>

ExecuteIncrOnly(s, k, reset, t) == Incr(s, k)

\* p.execute(): INCR and EXPIREAT run as one MULTI/EXEC transaction
Execute(s, k, reset, t) == ExpireAt(Incr(s, k), k, Expiry(reset), t)

\* the RateLimit object built from the value INCR returned
RateLimit(reset, count) ==
    [limit |-> wrap.limit, per |-> wrap.per,
     send_x_headers |-> wrap.send_x_headers, reset |-> reset,
     current |-> Current(count, wrap.limit)]

WrapperOutcomeMasked(out) ==
    IF out.kind = "raise" THEN [kind |-> "raise", value |-> "RateLimitError"]
    ELSE out

\* return f(*args, **kwargs): what f returns or raises leaves the wrapper
WrapperOutcome(out) == out

\* rate_limited from the pipeline on: the batch is applied, the RateLimit is
\* attached to g, and either on_over_limit answers or f runs and returns or
\* raises; the response then goes through process_response
rate_limited(r, out) ==
    /\ req[r].pc = "pipeline"
    /\ LET k == req[r].key
           cnt == Incr(store, k)[k].count
           rl == RateLimit(req[r].reset, cnt)
           w == WrapperOutcome(out)
       IN  /\ store' = Execute(store, k, req[r].reset, now)
           /\ IF over_limit_handler # None /\ over_limit(rl)
              THEN /\ out = CHOOSE o \in FOutcomes : TRUE
                   /\ req' = [req EXCEPT ![r] = process_response(
                          [@ EXCEPT !.count = cnt, !.g = <<rl>>,
                                    !.resp = on_over_limit(rl)])]
              ELSE req' = [req EXCEPT ![r] = process_response(
                      [@ EXCEPT
                         !.count = cnt, !.g = <<rl>>,
                         !.f_calls = @ + 1, !.f_out = out,
                         !.exc = IF w.kind = "raise" THEN w.value ELSE None,
                         !.resp = IF w.kind = "raise" THEN ErrorResponse
                                  ELSE OkResponse(w.value)])]
    /\ UNCHANGED <<wrap, now>>

ExecuteFailsZeroUsage(r) ==
    /\ req[r].pc = "pipeline"
    /\ req' = [req EXCEPT ![r] = process_response(
                 [@ EXCEPT !.g = <<RateLimit(req[r].reset, 0)>>,
                           !.f_calls = @ + 1,
                           !.resp = OkResponse("rows")])]
    /\ UNCHANGED <<wrap, now, store>>

\* p.execute() raises redis.ConnectionError: nothing is applied and the
\* exception leaves RateLimit.__init__ and rate_limited
ExecuteFails(r) ==
    /\ req[r].pc = "pipeline"
    /\ req' = [req EXCEPT ![r] = process_response(
                 [@ EXCEPT !.exc = "ConnectionError",
                           !.resp = ErrorResponse])]
    /\ UNCHANGED <<wrap, now, store>>

\* a request to the route '/', which is not wrapped: index() answers and
\* the response goes through process_response with nothing attached to g
index(r) ==
    /\ wrap.state = "wrapped"
    /\ req[r].pc = "idle"
    /\ IF r = 1 THEN TRUE ELSE req[r - 1].pc # "idle"
    /\ req' = [req EXCEPT ![r] = process_response(
                 [@ EXCEPT !.resp = OkResponse("Welcome to EQ Works")])]
    /\ UNCHANGED <<wrap, now, store>>

\* time passes; the store expires keys
Tick ==
    /\ now + TickStep <= MaxTime
    /\ now' = now + TickStep
    /\ store' = Purge(store, now + TickStep)
    /\ UNCHANGED <<wrap, req>>

\* admits is the log of the times at which f was invoked; it is kept only
\* under SpecBurst
Next ==
    \/ \E c \in Configs : ratelimit(c) /\ UNCHANGED admits
    \/ \E r \in Req, sc \in Scopes : Arrive(r, sc) /\ UNCHANGED admits
    \/ \E r \in Req, out \in FOutcomes :
          rate_limited(r, out) /\ UNCHANGED admits
    \/ \E r \in Req : ExecuteFails(r) /\ UNCHANGED admits
    \/ \E r \in Req : index(r) /\ UNCHANGED admits
    \/ Tick /\ UNCHANGED admits

Spec == Init /\ [][Next]_vars

TypeOK ==
    /\ wrap.state \in {"unwrapped", "wrapped"}
    /\ now \in 0..MaxTime
    /\ \A r \in Req :
          req[r].pc \in {"idle", "pipeline", "blocked", "done"}

(* ---------------------- a store that does not answer -------------------- *)

\* Redis(host=..., port=..., password=...): no socket_timeout is given, and
\* the client's default is to wait without limit
socket_timeout == None

\* p.execute() gets no answer from the store: the request waits in the
\* socket read; with socket_timeout None nothing ends the wait
ExecuteHangs(r) ==
    /\ req[r].pc = "pipeline"
    /\ socket_timeout = None
    /\ req' = [req EXCEPT ![r].pc = "blocked"]
    /\ UNCHANGED <<wrap, now, store, admits>>

\* the program with a store that may stay silent
NextHang ==
    \/ Next
    \/ \E r \in Req : ExecuteHangs(r)

\* what the thread serving request r does once the batch is sent
Serve(r) ==
    \/ \E out \in FOutcomes : rate_limited(r, out) /\ UNCHANGED admits
    \/ ExecuteFails(r) /\ UNCHANGED admits
    \/ ExecuteHangs(r)

\* every request is served by a thread of its own, which keeps running
SpecHang ==
    /\ Init
    /\ [][NextHang]_vars
    /\ \A r \in Req : WF_vars(Serve(r))

(* ------------------- a burst of requests of one scope ------------------ *)

\* number of requests of the burst
BurstRequests == 5

BurstReq == 1..BurstRequests

\* the burst's operation is wrapped with the smallest limit that admits
\* a request, and a window short enough for its keys to expire
BurstConfig == [limit |-> 2, per |-> 20, send_x_headers |-> TRUE]

BurstScope == [endpoint |-> <<"p", "o", "i">>, caller |-> <<"1", ".", "2">>]

BurstOutcome == [kind |-> "return", value |-> "rows"]

InitBurst ==
    /\ wrap = [state |-> "wrapped", limit |-> BurstConfig.limit,
               per |-> BurstConfig.per,
               send_x_headers |-> BurstConfig.send_x_headers]
    /\ now = 0
    /\ store = <<>>
    /\ req = [r \in BurstReq |-> IdleReq]
    /\ admits = <<>>

\* rate_limited, with the time logged when it invokes f
Admission(r) ==
    /\ rate_limited(r, BurstOutcome)
    /\ admits' = IF req'[r].f_calls = 1 THEN Append(admits, now) ELSE admits

NextBurst ==
    \/ \E r \in BurstReq : Arrive(r, BurstScope) /\ UNCHANGED admits
    \/ \E r \in BurstReq : Admission(r)
    \/ Tick /\ UNCHANGED admits

SpecBurst == InitBurst /\ [][NextBurst]_vars

(* ------------- identities that key_func and scope_func return ---------- *)

\* key_func and scope_func are parameters of ratelimit and return any
\* string: identities with and without the separator "/"
Identities ==
    {[endpoint |-> <<"a">>, caller |-> <<"b", "/", "c">>],
     [endpoint |-> <<"a", "/", "b">>, caller |-> <<"c">>],
     [endpoint |-> <<"a">>, caller |-> <<"c">>]}

InitIdentities ==
    /\ wrap = [state |-> "wrapped", limit |-> BurstConfig.limit,
               per |-> BurstConfig.per,
               send_x_headers |-> BurstConfig.send_x_headers]
    /\ now = 0
    /\ store = <<>>
    /\ req = [r \in Req |-> IdleReq]
    /\ admits = <<>>

NextIdentities ==
    \/ \E r \in Req, sc \in Identities : Arrive(r, sc) /\ UNCHANGED admits
    \/ \E r \in Req : rate_limited(r, BurstOutcome) /\ UNCHANGED admits
    \/ Tick /\ UNCHANGED admits

SpecIdentities == InitIdentities /\ [][NextIdentities]_vars

(* ------------------------- notions of the claims ----------------------- *)

Max(a, b) == IF a >= b THEN a ELSE b

DigitValue(ch) == (CHOOSE i \in 1..10 : Digits[i] = ch) - 1

RECURSIVE ParseNat(_)
ParseNat(sq) ==
    IF sq = <<>> THEN 0
    ELSE 10 * ParseNat(SubSeq(sq, 1, Len(sq) - 1)) + DigitValue(sq[Len(sq)])

\* the integer a decimal string denotes
ParseInt(sq) == IF sq[1] = "-" THEN 0 - ParseNat(Tail(sq)) ELSE ParseNat(sq)

Done(r) == req[r].pc = "done"

\* the request's admission check got an answer from the store
Checked(r) == Done(r) /\ req[r].g # <<>>

\* the request's batch was sent and failed
StoreFailed(r) == Done(r) /\ req[r].key # <<>> /\ req[r].g = <<>>

RejectionBody == "{\"data\": \"You hit the rate limit\", \"error\": \"429\"}"

Rejected(r) ==
    /\ req[r].f_calls = 0
    /\ req[r].resp.status = 429
    /\ req[r].resp.body = RejectionBody

\* the value of response header h of request r (h is present)
Header(r, h) ==
    LET hs == req[r].resp.headers
        i == CHOOSE j \in 1..Len(hs) : hs[j][1] = h
    IN  hs[i][2]

HeaderCount(r, h) ==
    LET hs == req[r].resp.headers
    IN  Cardinality({j \in 1..Len(hs) : hs[j][1] = h})

(* -------------------------------- claims -------------------------------- *)

\* C1: in one window the first `limit` checks against a scope's counter are
\* admitted and the (limit+1)-th is rejected, the position of a check being
\* the value the store's increment returned to it.
C1_FirstLimitAdmitted ==
    \A r \in Req :
        Checked(r) =>
            /\ req[r].count <= wrap.limit =>
                   (req[r].f_calls = 1 /\ req[r].resp.status # 429)
            /\ req[r].count = wrap.limit + 1 => Rejected(r)

\* C2: a request whose counter-store batch failed is still served: the
\* protected operation is invoked and the store's error is not the outcome
\* of the request.
C2_FailOpen ==
    \A r \in Req :
        StoreFailed(r) =>
            /\ req[r].f_calls = 1
            /\ req[r].exc # "ConnectionError"

\* C3: when the admission result is over the limit (current >= limit) f is
\* not invoked and the response is the 429 with the fixed JSON body; when it
\* is not, f is invoked exactly once and what it returns is the response.
C3_RejectOrInvokeOnce ==
    \A r \in Req :
        Checked(r) =>
            LET rl == req[r].g[1] IN
            IF rl.current >= rl.limit
            THEN Rejected(r)
            ELSE /\ req[r].f_calls = 1
                 /\ req[r].f_out.kind = "return" =>
                        /\ req[r].resp.status = 200
                        /\ req[r].resp.body = req[r].f_out.value

C3_Witness ==
    \E r1, r2 \in Req :
        /\ Checked(r1) /\ req[r1].g[1].current >= wrap.limit /\ Rejected(r1)
        /\ Checked(r2) /\ req[r2].g[1].current < wrap.limit
        /\ req[r2].f_calls = 1 /\ req[r2].resp.body = "rows"

\* C4: the remaining quota of every admission result is
\* max(limit - stored count, 0), the stored count being the value the
\* increment returned; it and the X-RateLimit-Remaining header are never
\* negative.
C4_RemainingNeverNegative ==
    \A r \in Req :
        Checked(r) =>
            /\ remaining(req[r].g[1]) = Max(wrap.limit - req[r].count, 0)
            /\ remaining(req[r].g[1]) >= 0
            /\ HeaderCount(r, "X-RateLimit-Remaining") = 1 =>
                 /\ ParseInt(Header(r, "X-RateLimit-Remaining"))
                        = Max(wrap.limit - req[r].count, 0)
                 /\ Header(r, "X-RateLimit-Remaining")[1] # "-"

C4_Witness ==
    \E r \in Req :
        /\ Checked(r)
        /\ wrap.limit > 0
        /\ req[r].count > wrap.limit
        /\ HeaderCount(r, "X-RateLimit-Remaining") = 1
        /\ Header(r, "X-RateLimit-Remaining") = <<"0">>

\* C5: with header exposure enabled the response carries X-RateLimit-Limit =
\* the configured limit, X-RateLimit-Reset = the window end that closes the
\* request's counter key, and X-RateLimit-Remaining = limit - current count;
\* the first call of a window under limit=100, per=60 gets 99, 100 and the
\* next 60-second boundary.
C5_Headers ==
    \A r \in Req :
        (Checked(r) /\ wrap.send_x_headers) =>
            /\ Len(req[r].resp.headers) = 3
            /\ HeaderCount(r, "X-RateLimit-Limit") = 1
            /\ HeaderCount(r, "X-RateLimit-Reset") = 1
            /\ HeaderCount(r, "X-RateLimit-Remaining") = 1
            /\ ParseInt(Header(r, "X-RateLimit-Limit")) = wrap.limit
            /\ req[r].key = KeyPrefix(req[r].scope.endpoint, req[r].scope.caller)
                              \o Header(r, "X-RateLimit-Reset")
            /\ ParseInt(Header(r, "X-RateLimit-Remaining"))
                   = wrap.limit - req[r].g[1].current
            /\ (wrap.limit = 100 /\ wrap.per = 60 /\ req[r].count = 1) =>
                 /\ Header(r, "X-RateLimit-Remaining") = <<"9", "9">>
                 /\ Header(r, "X-RateLimit-Limit") = <<"1", "0", "0">>
                 /\ ParseInt(Header(r, "X-RateLimit-Reset")) % 60 = 0
                 /\ now < 60 => Header(r, "X-RateLimit-Reset") = <<"6", "0">>

C5_Witness ==
    \E r \in Req :
        /\ Checked(r)
        /\ wrap.limit = 100 /\ wrap.per = 60 /\ wrap.send_x_headers
        /\ req[r].count = 1
        /\ req[r].resp.status = 200
        /\ Header(r, "X-RateLimit-Remaining") = <<"9", "9">>
        /\ Header(r, "X-RateLimit-Reset") = <<"6", "0">>

\* C6: a counter key in the store expires at exactly window end +
\* expiration_window, never before the window end, and no key is in the
\* store once the time is strictly past that expiry.
C6_KeyExpiry ==
    /\ \A k \in DOMAIN store :
          /\ store[k].expireat # NoExpiry
          /\ ~(now > store[k].expireat)
    /\ \A r \in Req :
          Checked(r) =>
             /\ req[r].key \in DOMAIN store =>
                  /\ store[req[r].key].expireat
                        = req[r].reset + expiration_window
                  /\ store[req[r].key].expireat >= req[r].reset
             /\ now > req[r].reset + expiration_window =>
                  req[r].key \notin DOMAIN store

C6_Witness ==
    \E r1, r2 \in Req :
        /\ Checked(r1) /\ Checked(r2)
        /\ wrap.per > 0
        /\ req[r1].count = 2
        /\ now > req[r1].reset + expiration_window
        /\ req[r1].key \notin DOMAIN store
        /\ req[r2].key \in DOMAIN store
        /\ store[req[r2].key].expireat = req[r2].reset + expiration_window

\* C7: checks of one scope in different windows use different counter keys,
\* and the count a check observes comes only from the checks of its own
\* scope and window.
C7_WindowsIndependent ==
    /\ \A r1, r2 \in Req :
          (/\ req[r1].key # <<>> /\ req[r2].key # <<>>
           /\ req[r1].scope = req[r2].scope
           /\ req[r1].reset # req[r2].reset) => req[r1].key # req[r2].key
    /\ \A r \in Req :
          Checked(r) =>
             req[r].count <= Cardinality({r2 \in Req :
                                 /\ Checked(r2)
                                 /\ req[r2].scope = req[r].scope
                                 /\ req[r2].reset = req[r].reset})

C7_Witness ==
    \E r1, r2 \in Req :
        /\ Checked(r1) /\ Checked(r2)
        /\ wrap.per > 0
        /\ req[r1].scope = req[r2].scope
        /\ req[r1].reset < req[r2].reset
        /\ req[r1].key \in DOMAIN store /\ req[r2].key \in DOMAIN store
        /\ store[req[r1].key].count = 2
        /\ req[r2].count = 1

\* C8: the response hook inject_x_rate_headers has run exactly once for
\* every completed request, whether f returned, f raised or the request was
\* rejected at admission, and has not run for a request still under way.
C8_DecoratedOnce ==
    \A r \in Req :
        /\ Done(r) => req[r].decorated = 1
        /\ ~Done(r) => req[r].decorated = 0

C8_Witness ==
    \E r1, r2, r3 \in Req :
        /\ Done(r1) /\ req[r1].f_out.kind = "return" /\ req[r1].decorated = 1
        /\ Done(r2) /\ req[r2].f_out.kind = "raise" /\ req[r2].decorated = 1
        /\ Done(r3) /\ Rejected(r3) /\ req[r3].decorated = 1

\* C9: an error raised by the protected operation of an admitted request is
\* the error that leaves the wrapper, and the response is not the rejection
\* nor a success.
C9_ErrorPropagates ==
    \A r \in Req :
        (Done(r) /\ req[r].f_out.kind = "raise") =>
            /\ req[r].exc = req[r].f_out.value
            /\ req[r].resp.status = 500

C9_Witness ==
    \E r \in Req :
        /\ Checked(r)
        /\ req[r].f_calls = 1
        /\ req[r].f_out = [kind |-> "raise", value |-> "KeyError"]
        /\ req[r].exc = "KeyError"

\* C10: an operation is never wrapped with a non-positive limit or per (the
\* wrap fails with ConfigurationError instead), and no admission check runs
\* with limit <= 0 or per <= 0.
C10_ConfigurationChecked ==
    /\ wrap.state = "wrapped" => (wrap.limit > 0 /\ wrap.per > 0)
    /\ \A r \in Req :
          req[r].pc # "idle" => (wrap.limit > 0 /\ wrap.per > 0)

\* C11: every admission check eventually completes: a request that has sent
\* its batch ends with a response, also when the store never answers.
C11_CheckCompletes ==
    \A r \in Req : (req[r].pc = "pipeline") ~> (req[r].pc = "done")

\* the request went to the unwrapped route
Unprotected(r) ==
    Done(r) /\ req[r].key = <<>> /\ req[r].exc = None /\ req[r].g = <<>>

RateLimitHeaders == {"X-RateLimit-Remaining", "X-RateLimit-Limit",
                     "X-RateLimit-Reset"}

\* C12: a completed request's response carries the three X-RateLimit
\* headers exactly when a RateLimit is attached to its call context and the
\* operation was wrapped with send_x_headers; otherwise the hook adds
\* nothing, and the response of an unprotected operation is what the
\* operation returned.
C12_HeadersIffAttachedAndOptedIn ==
    \A r \in Req :
        Done(r) =>
            LET exposes == req[r].g # <<>> /\ wrap.send_x_headers IN
            /\ exposes =>
                  /\ Len(req[r].resp.headers) = 3
                  /\ \A h \in RateLimitHeaders : HeaderCount(r, h) = 1
            /\ ~exposes => req[r].resp.headers = <<>>
            /\ Unprotected(r) =>
                  req[r].resp = [status |-> 200,
                                 body |-> "Welcome to EQ Works",
                                 headers |-> <<>>]

C12_Witness ==
    \E r1, r2 \in Req :
        /\ Unprotected(r1) /\ req[r1].resp.headers = <<>>
        /\ Checked(r2) /\ wrap.send_x_headers
        /\ \A h \in RateLimitHeaders : HeaderCount(r2, h) = 1

\* C13: the increment and the expiry of a counter key take effect in one
\* step: in no state does the store hold a counter key without an expiry,
\* so no request can read an incremented counter whose expiry is not set.
C13_IncrementAndExpiryTogether ==
    \A k \in DOMAIN store :
        /\ store[k].count >= 1
        /\ store[k].expireat > now

C13_Witness ==
    \E r1, r2 \in Req :
        /\ Checked(r1)
        /\ req[r2].pc = "pipeline"
        /\ req[r2].key = req[r1].key
        /\ req[r1].key \in DOMAIN store
        /\ store[req[r1].key].expireat = req[r1].reset + expiration_window

\* request r's batch is applied in this step
Applies(r) == req[r].pc = "pipeline" /\ req'[r].pc = "done" /\ req'[r].g # <<>>

\* C14: for one scope and window, a check whose batch the store applies
\* later never receives a smaller current_count than a check applied
\* earlier, however late the batch reaches the store.
C14_CountMonotonic ==
    [][\A r, r2 \in Req :
         (/\ Applies(r)
          /\ Checked(r2)
          /\ req[r2].scope = req[r].scope
          /\ req[r2].reset = req[r].reset)
             => req'[r].g[1].current >= req[r2].g[1].current]_vars

\* C15: in any time interval of length per, at most 2 * limit requests of
\* a scope are admitted.
C15_BurstAtMostTwiceLimit ==
    \A i \in 1..Len(admits) :
        Cardinality({j \in 1..Len(admits) :
                        /\ admits[i] <= admits[j]
                        /\ admits[j] < admits[i] + wrap.per})
            <= 2 * wrap.limit

\* C16: for per > 0, the window end a check computes from the clock it
\* reads is floor(now / per) * per + per: a multiple of per, strictly after
\* now and at most now + per.
C16_WindowEnd ==
    [][\A r \in Req :
         (req[r].pc = "idle" /\ req'[r].pc = "pipeline" /\ wrap.per > 0)
            => /\ req'[r].reset = (now \div wrap.per) * wrap.per + wrap.per
               /\ req'[r].reset % wrap.per = 0
               /\ req'[r].reset > now
               /\ req'[r].reset <= now + wrap.per]_vars

\* a check that read the clock exactly on a window boundary
C16_Witness ==
    \E r \in Req :
        /\ req[r].pc = "pipeline"
        /\ wrap.per = 20
        /\ now = 20
        /\ req[r].reset = 40

\* the request's batch was sent and no count came back
BatchFailed(r) == Done(r) /\ req[r].key # <<>> /\ req[r].count = 0

\* C17: when the store operation of a check fails, the error surfaces to
\* the caller of the protected operation; no Rate Limit Result is attached
\* to the request, f is not invoked and the response carries no rate-limit
\* header.
C17_StoreFailureSurfaces ==
    \A r \in Req :
        BatchFailed(r) =>
            /\ req[r].exc = "ConnectionError"
            /\ req[r].resp.status = 500
            /\ req[r].g = <<>>
            /\ req[r].f_calls = 0
            /\ \A h \in RateLimitHeaders : HeaderCount(r, h) = 0

\* a failed batch next to an answered one, with headers switched on
C17_Witness ==
    \E r1, r2 \in Req :
        /\ BatchFailed(r1)
        /\ req[r1].exc = "ConnectionError"
        /\ wrap.send_x_headers
        /\ Checked(r2)
        /\ HeaderCount(r2, "X-RateLimit-Limit") = 1

\* the request computed the key of its counter
Keyed(r) == req[r].key # <<>>

\* C18: two admission checks use the same counter key if and only if they
\* have the same operation identity, the same caller identity and the same
\* window_end, whatever strings the identities are.
C18_KeyIdentifiesScopeWindow ==
    \A r1, r2 \in Req :
        (Keyed(r1) /\ Keyed(r2)) =>
            ((req[r1].key = req[r2].key)
                <=> /\ req[r1].scope.endpoint = req[r2].scope.endpoint
                    /\ req[r1].scope.caller = req[r2].scope.caller
                    /\ req[r1].reset = req[r2].reset)

\* the admission checks made so far for the scope and window of r
ChecksLike(r) ==
    {r2 \in Req : /\ Checked(r2)
                  /\ req[r2].scope = req[r].scope
                  /\ req[r2].reset = req[r].reset}

\* C19: every admission check, admitted or rejected, increments its
\* counter exactly once: while the key has not expired, the stored counter
\* is the number of admission checks made for that scope in that window,
\* also beyond limit.
C19_CounterCountsChecks ==
    \A r \in Req :
        (Checked(r) /\ req[r].key \in DOMAIN store) =>
            /\ store[req[r].key].count = Cardinality(ChecksLike(r))
            /\ req[r].count <= store[req[r].key].count

\* three checks of one scope and window, the last two rejected, and the
\* counter above the limit
C19_Witness ==
    \E r \in Req :
        /\ Checked(r)
        /\ wrap.limit = 2
        /\ Rejected(r)
        /\ req[r].key \in DOMAIN store
        /\ store[req[r].key].count = 3
        /\ Cardinality({r2 \in ChecksLike(r) : Rejected(r2)}) = 2

\* the requests of r's window for which the protected operation was invoked
AdmittedLike(r) ==
    {r2 \in DOMAIN req : /\ Checked(r2)
                         /\ req[r2].f_calls = 1
                         /\ req[r2].scope = req[r].scope
                         /\ req[r2].reset = req[r].reset}

\* C20: while the store answers every check, the number of requests of one
\* scope admitted in one window never exceeds limit, whatever the
\* interleaving of the checks.
C20_AdmittedAtMostLimit ==
    \A r \in DOMAIN req :
        Checked(r) => Cardinality(AdmittedLike(r)) <= wrap.limit
====
